---- MODULE Spec2Model ----
(***************************************************************************)
(* Model of the presentation-generation pipeline of src-backend:           *)
(*   mcp_server/workflow.py       run_ppt_workflow (the orchestrator)       *)
(*   mcp_server/tools.py          create_presentation (the assembly tool)   *)
(*   mcp_server/agents/*/schemas  the typed values passed between stages    *)
(*   app/routes/presentation      generate_ppt (the fire-and-forget caller) *)
(*                                download_ppt, presentation_status         *)
(*   mcp_server/helper            SourceValidator                           *)
(* The four agents (planner, researcher, writer, illustrator) are called   *)
(* by the workflow but their bodies are not part of the sources; what they *)
(* return is modelled from the specification and marked so in the map.     *)
(***************************************************************************)
EXTENDS Integers, Sequences, FiniteSets, TLC

\* ------------------------------------------------------------------ bounds
MaxSlides == 2
MaxQueries == 2

\* ------------------------------------------------------------ value spaces
\* Python's None where the other values of the variable are records.
None == [tag |-> "None"]

\* What reading an attribute yields on an object that does not define it.
NoAttr == [tag |-> "NoAttr"]

\* Python's None where the other values of the variable are strings.
NoPath == "None"

\* mcp_server/agents/writer/schemas.py VisualRequest: type is a free string,
\* data_json an optional string.  data_json is modelled by what a parse of it
\* yields: None (absent), or the lengths of its labels and values lists.
ChartData(l, v) == [tag |-> "data", labels |-> l, values |-> v]

MkVisualRequest(t, d) == [tag |-> "VisualRequest", type |-> t, data_json |-> d]

VisualRequest ==
    { MkVisualRequest("chart", d) : d \in {None, ChartData(1, 1), ChartData(1, 2)} }
    \cup { MkVisualRequest("image", d) : d \in {None, ChartData(1, 1)} }

\* A chart request whose data is present with labels and values of equal length.
WellFormedChart(vr) ==
    /\ vr.tag = "VisualRequest"
    /\ vr.type = "chart"
    /\ vr.data_json.tag = "data"
    /\ vr.data_json.labels = vr.data_json.values

\* mcp_server/agents/planner/schemas.py SlidePlan (content_goal carries no
\* behaviour and is left out); search_queries is modelled by its length, and
\* title by a number: i for the title of entry i, 0 for the empty string.
SlidePlan(i, nq) == [slide_number |-> i, title |-> i, search_queries |-> nq]

\* The outlines of n entries the planner can return: every entry carries q
\* search queries, for each q in 1..MaxQueries.
Plans(n) ==
    { [i \in 1..n |-> SlidePlan(i, q)] : q \in 1..MaxQueries }

\* mcp_server/agents/planner/schemas.py PresentationPlan as the parsed message
\* of a structured completion (tests/test_workflow.py: message.parsed is a
\* PresentationPlan or None).
Parsed(slides) == [tag |-> "PresentationPlan", slides |-> slides]

\* An outline whose entry k has an empty title / has no search query.
Untitled(p, k) == [p EXCEPT ![k].title = 0]

Unqueried(p, k) == [p EXCEPT ![k].search_queries = 0]

\* What a completion call asked for n entries can answer: nothing, a
\* well-formed outline of n entries, an outline with no entry, with one entry
\* less or one more than asked, or with a defective entry.
Completions(n) ==
    {None}
      \cup { Parsed(p) : p \in Plans(n) }
      \cup { Parsed(p) : p \in Plans(0) \cup Plans(n - 1) \cup Plans(n + 1) }
      \cup { Parsed(Untitled(p, k)) : p \in Plans(n), k \in 1..n }
      \cup { Parsed(Unqueried(p, k)) : p \in Plans(n), k \in 1..n }

\* mcp_server/agents/writer/schemas.py SlideContent declares exactly these
\* attributes (speaker_notes carries no behaviour and is left out of the values).
SlideContentFields == {"title", "points", "speaker_notes"}

\* A drafted slide: the final title and the bullet points written for
\* outline entry i.  visual_request is NoAttr when the slide object does not
\* define the attribute (an instance of the SlideContent of schemas.py), and
\* None or a VisualRequest when it does (the SlideContent of the data model,
\* which workflow.py:94 reads).
Slide(i, vr) ==
    [title |-> <<"title", i>>, points |-> <<"points", i>>,
     visual_request |-> vr]

\* mcp_server/agents/writer/schemas.py PresentationContent.
Deck(slides, vr) ==
    [filename_suggestion |-> "deck", slides |-> slides, visual_request |-> vr]

\* What WriterAgent.prepare_presentation can hand back for an outline of n
\* entries: one slide per entry; either every slide is a schema SlideContent
\* (no visual_request attribute; the deck carries at most one deck-level
\* request), or every slide carries an optional VisualRequest.
SchemaSlide(i) ==
    Slide(i, IF "visual_request" \in SlideContentFields THEN None ELSE NoAttr)

Decks(n) ==
    { Deck([i \in 1..n |-> SchemaSlide(i)], vr) :
          vr \in VisualRequest \cup {None} }
    \cup
    { Deck([i \in 1..n |-> Slide(i, v[i])], None) :
          v \in [1..n -> VisualRequest \cup {None}] }

\* Every VisualRequest a deck carries, attached to a slide or to the deck.
DeckRequests(deck) ==
    { deck.slides[i].visual_request : i \in 1..Len(deck.slides) }
    \cup {deck.visual_request}

ChartConstraintAnyChart(deck) ==
    \E vr \in DeckRequests(deck) : vr.tag = "VisualRequest" /\ vr.type = "chart"

\* DraftingStage post-condition: some request of the deck is a chart with
\* well-formed data.
ChartConstraint(deck) == \E vr \in DeckRequests(deck) : WellFormedChart(vr)

\* A path written by the illustrator for the request of slide number n.
FilePath(kind, n) == [tag |-> "path", kind |-> kind, n |-> n]

GeneratedAsset(req) ==
    [slide_number |-> req.slide_number,
     file_path |-> FilePath(req.type, req.slide_number)]

VARIABLES
    pc,              \* position of the coroutine run_ppt_workflow
    stage,           \* orchestrator state (Requested .. Ready / Failed)
    stages,          \* history: the stages entered, in order
    outcome,         \* how run_ppt_workflow ended: returned value / raised error
    pending,         \* the return value or exception travelling through __aexit__
    response,        \* what generate_ppt answered to the client
    session,         \* "none", "open", "closed"
    opens, closes,   \* how often the session was entered / exited
    initialized,     \* session.initialize() has answered
    transport,       \* the stdio_client context: "none", "open", "closed"
    inflight,        \* invocations issued on the session and not yet resolved
    num_slides,      \* request parameter
    attempts,        \* structured-completion calls made by the planner
    invalidResults,  \* completion results the planner found invalid
    plan,            \* PresentationPlan.slides (empty before planning)
    research_data,   \* list of ResearchSummary
    rIdx,            \* outline entry the research loop is at (1-based)
    qIdx,            \* query of the current outline entry being looked up
    failedLookups,   \* history: the outline entries whose lookup failed
    drafted,         \* history: the deck the writer's completion produced
    deck_content,    \* PresentationContent, or None
    visual_requests, \* list built at workflow.py:92-97
    vIdx,            \* next visual request to materialise
    invocations,     \* tool invocations made for each visual request
    assets,          \* illustration_result.assets
    failedReqs,      \* history: the visual requests whose invocation failed
    final_slides_payload,
    toolCalls,       \* invocations of create_presentation in this run
    toolAnswer,      \* what the tool answered, on its way to the run
    toolResult,      \* message of create_presentation the run has received
    files            \* artifacts present in FILE_PATH

\* The variables of one run of run_ppt_workflow.
wfVars == <<pc, stage, stages, outcome, pending, response, session,
            opens, closes, initialized, transport, inflight, num_slides,
            attempts, invalidResults, plan, research_data,
            rIdx, qIdx, failedLookups, drafted, deck_content, visual_requests,
            vIdx, invocations, assets, failedReqs, final_slides_payload,
            toolCalls, toolAnswer, toolResult, files>>

\* helper/source_validator.py SourceValidator: the arguments and locals of a
\* call of normalize_url or validate_url.
VARIABLES
    vpc,               \* position in the validator calls ("off" during a run)
    interpreter,       \* the CPython whose urllib.parse the call runs on
    url,               \* the url argument
    clean_url,         \* normalize_url(url)
    reclean_url,       \* normalize_url(clean_url)
    tavily_confidence, \* the provider confidence, in units of 0.00001
    other_confidence,  \* a second confidence for the same url and page
    http_response,     \* what requests.get answers for clean_url
    result,            \* validate_url(url, tavily_confidence)
    other_result       \* validate_url(url, other_confidence)

\* SourceValidator.rank_sources: its argument, its local list and its result.
VARIABLES
    raw_results,       \* the records to rank
    answers,           \* answers[i]: what the site of raw_results[i] answers
    ranked_results,    \* the records validated so far, in input order
    ranking            \* the returned list

batchVars == <<raw_results, answers, ranked_results, ranking>>

valVars == <<vpc, interpreter, url, clean_url, reclean_url, tavily_confidence,
             other_confidence, http_response, result,
             other_result, batchVars>>

\* app/routes/presentation/router.py: one status stream (presentation_status /
\* event_stream) and one download request (download_ppt) for pprt_id.
VARIABLES
    spc,               \* position of event_stream ("off": not requested)
    elapsed,           \* event_stream's counter of seconds waited
    events,            \* the events the stream has emitted, in order
    checks,            \* what os.path.exists answered at each check, in order
    download           \* what download_ppt answered ("none": not requested)

statusVars == <<spc, elapsed, events, checks, download>>

\* mcp_server/tools.py create_presentation called on its own.
VARIABLES
    tool_args,         \* the arguments of the call
    tool_disk,         \* whether FILE_PATH can be written to
    tool_return        \* what the call returned, or the exception it raised

toolVars == <<tool_args, tool_disk, tool_return>>

svcVars == <<statusVars, toolVars>>

vars == <<wfVars, valVars, svcVars>>

ctlVars == <<outcome, response, num_slides>>
sessVars == <<session, opens, closes, initialized, transport>>
planVars == <<attempts, invalidResults, plan>>
resVars == <<research_data, rIdx, qIdx, failedLookups>>
deckVars == <<drafted, deck_content, visual_requests>>
illVars == <<vIdx, invocations, assets, failedReqs>>
asmVars == <<final_slides_payload, toolCalls, toolAnswer, toolResult, files>>

\* ------------------------------------------------------------ orchestrator
StageOrder ==
    <<"Requested", "Planning", "Researching", "Drafting", "Illustrating",
      "Assembling", "Ready">>

\* The identifier generate_ppt hands to the run and to the client
\* (app/routes/presentation/utils.py generate_pprt_id).
pprt_id == "topic-uuid"

\* run_ppt_workflow has neither returned nor raised.
NoOutcome == [kind |-> "none"]

\* No call of the validator is under way.
ValidatorOff ==
    /\ vpc = "off"
    /\ interpreter = "3.13"
    /\ url = <<>>
    /\ clean_url = <<>>
    /\ reclean_url = <<>>
    /\ tavily_confidence = 0
    /\ other_confidence = 0
    /\ http_response = None
    /\ result = None
    /\ other_result = None

\* No call of rank_sources.
BatchOff ==
    /\ raw_results = <<>>
    /\ answers = <<>>
    /\ ranked_results = <<>>
    /\ ranking = <<>>

\* No status stream, no download, no direct call of the assembly tool.
ServiceOff ==
    /\ spc = "off"
    /\ elapsed = 0
    /\ events = <<>>
    /\ checks = <<>>
    /\ download = "none"
    /\ tool_args = None
    /\ tool_disk = "writable"
    /\ tool_return = None

\* run_ppt_workflow has not been scheduled.
WorkflowIdle ==
    /\ pc = "idle"
    /\ stage = "Requested"
    /\ stages = <<"Requested">>
    /\ outcome = NoOutcome
    /\ pending = NoOutcome
    /\ response = None
    /\ session = "none"
    /\ opens = 0
    /\ closes = 0
    /\ initialized = FALSE
    /\ transport = "none"
    /\ inflight = 0
    /\ num_slides = 0
    /\ attempts = 0
    /\ invalidResults = 0
    /\ plan = <<>>
    /\ research_data = <<>>
    /\ rIdx = 1
    /\ qIdx = 1
    /\ failedLookups = {}
    /\ drafted = None
    /\ deck_content = None
    /\ visual_requests = <<>>
    /\ vIdx = 1
    /\ invocations = <<>>
    /\ assets = <<>>
    /\ failedReqs = {}
    /\ final_slides_payload = <<>>
    /\ toolCalls = 0
    /\ toolAnswer = "none"
    /\ toolResult = "none"
    /\ files = {}

Init == WorkflowIdle /\ ValidatorOff /\ BatchOff /\ ServiceOff

Enter(s) ==
    /\ stage' = s
    /\ stages' = Append(stages, s)

\* An exception raised at the current position: it leaves the coroutine
\* through the enclosing `async with` blocks (workflow.py:41-42).
ExitFrom ==
    IF session = "open" THEN "aexit"
    ELSE IF transport = "open" THEN "stdio_exit"
    ELSE "finish"

Raise(e) ==
    /\ pending' = [kind |-> "raised", error |-> e, stage |-> stage]
    /\ pc' = ExitFrom

\* `await` suspends run_ppt_workflow until the awaited call has resolved:
\* control sits at `waitPc`, not at the statement `herePc` that follows.
NoAwait(waitPc, herePc) == herePc

Await(waitPc, herePc) == waitPc

\* app/routes/presentation/router.py generate_ppt: schedules the run as a
\* background task and answers at once; the try/except around add_task sees
\* no exception of the run itself.
generate_ppt(n) ==
    /\ pc = "idle"
    /\ num_slides' = n
    /\ response' = [status |-> "Success", pprt_id |-> pprt_id]
    /\ pc' = "requested"
    /\ UNCHANGED <<stage, stages, outcome, pending, sessVars, inflight,
                   planVars, resVars, deckVars, illVars, asmVars>>
    /\ UNCHANGED <<valVars, svcVars>>

\* workflow.py:41: the awaited entry of stdio_client resolves.  The server
\* process may fail to start; then nothing was entered.
StartServer ==
    /\ pc = "requested"
    /\ \/ /\ transport' = "open"
          /\ pc' = "session_enter"
          /\ UNCHANGED pending
       \/ /\ Raise("ConnectionError")
          /\ UNCHANGED transport
    /\ UNCHANGED <<stage, stages, ctlVars, session, opens, closes, initialized,
                   inflight, planVars, resVars, deckVars, illVars, asmVars>>
    /\ UNCHANGED <<valVars, svcVars>>

\* workflow.py:42: the awaited entry of ClientSession resolves.
OpenSession ==
    /\ pc = "session_enter"
    /\ session' = "open"
    /\ opens' = opens + 1
    /\ pc' = "initialize"
    /\ UNCHANGED <<stage, stages, pending, ctlVars, closes, initialized,
                   transport, inflight, planVars, resVars, deckVars, illVars,
                   asmVars>>
    /\ UNCHANGED <<valVars, svcVars>>

\* workflow.py:43: await session.initialize() -- the handshake is sent.
InitializeIssue ==
    /\ pc = "initialize"
    /\ inflight' = inflight + 1
    /\ pc' = Await("initialize_wait", "list_tools")
    /\ UNCHANGED <<stage, stages, pending, ctlVars, sessVars, planVars, resVars,
                   deckVars, illVars, asmVars>>
    /\ UNCHANGED <<valVars, svcVars>>

InitializeResolve ==
    /\ pc = "initialize_wait"
    /\ inflight' = inflight - 1
    /\ \/ pc' = "list_tools" /\ initialized' = TRUE /\ UNCHANGED pending
       \/ Raise("ConnectionError") /\ UNCHANGED initialized
    /\ UNCHANGED <<stage, stages, ctlVars, session, opens, closes, transport,
                   planVars, resVars, deckVars, illVars, asmVars>>
    /\ UNCHANGED <<valVars, svcVars>>

\* workflow.py:46: tools = await session.list_tools()
ListToolsIssue ==
    /\ pc = "list_tools"
    /\ inflight' = inflight + 1
    /\ pc' = Await("list_tools_wait", "planning")
    /\ UNCHANGED <<stage, stages, pending, ctlVars, sessVars, planVars, resVars,
                   deckVars, illVars, asmVars>>
    /\ UNCHANGED <<valVars, svcVars>>

\* workflow.py:47-57: the agents are constructed and Step 1 begins.
ListToolsResolve ==
    /\ pc = "list_tools_wait"
    /\ inflight' = inflight - 1
    /\ \/ pc' = "planning" /\ Enter("Planning") /\ UNCHANGED pending
       \/ Raise("ToolError") /\ UNCHANGED <<stage, stages>>
    /\ UNCHANGED <<ctlVars, sessVars, planVars, resVars, deckVars, illVars,
                   asmVars>>
    /\ UNCHANGED <<valVars, svcVars>>

\* ------------------------------------------------------------ PlanningStage
\* The retry bound of the planner's completion call.
MaxPlanAttempts == 3

\* workflow.py:58-60 -> PlannerAgent.create_presentation_plan.  A slide count
\* below 1 is rejected before any completion call; otherwise one completion
\* call is made, and an invalid result is retried up to the bound.
PlannerReject ==
    /\ pc = "planning"
    /\ num_slides < 1
    /\ Raise("InvalidRequest")
    /\ UNCHANGED <<stage, stages, ctlVars, sessVars, inflight, planVars,
                   resVars, deckVars, illVars, asmVars>>
    /\ UNCHANGED <<valVars, svcVars>>

\* The planner's check of a completion result r against the n entries asked.
ValidateAnyParsed(r, n) == r # None

ValidateResponse(r, n) ==
    /\ r # None
    /\ Len(r.slides) > 0
    /\ Len(r.slides) = n
    /\ \A k \in 1..Len(r.slides) :
          r.slides[k].title # 0 /\ r.slides[k].search_queries >= 1

\* The planner gives up once this many results were invalid.
GivesUpOneLater(k) == k = MaxPlanAttempts + 1

GivesUp(k) == k = MaxPlanAttempts

PlannerAttempt ==
    /\ pc = "planning"
    /\ num_slides >= 1
    /\ attempts <= MaxPlanAttempts
    /\ attempts' = attempts + 1
    /\ \E r \in Completions(num_slides) :
          IF ValidateResponse(r, num_slides)
          THEN /\ plan' = r.slides
               /\ pc' = "research"
               /\ Enter("Researching")
               /\ UNCHANGED <<pending, invalidResults>>
          ELSE /\ invalidResults' = invalidResults + 1
               /\ IF GivesUp(invalidResults + 1)
                  THEN /\ Raise("PlanningFailed")
                       /\ UNCHANGED <<plan, stage, stages>>
                  ELSE UNCHANGED <<plan, pc, pending, stage, stages>>
    /\ UNCHANGED <<ctlVars, sessVars, inflight, resVars, deckVars, illVars,
                   asmVars>>
    /\ UNCHANGED <<valVars, svcVars>>

\* ------------------------------------------------------------ ResearchStage
\* workflow.py:67: the loop is over once every entry of the plan was visited.
ResearchLoopDoneEarly == rIdx > 1

ResearchLoopDone == rIdx > Len(plan)

\* ResearchSummary of one outline entry: its ranked sources, one per query
\* that was looked up (an empty list when a lookup failed).
ResearchSummary(entry, nsources) ==
    [slide_title |-> entry.title, sources |-> [j \in 1..nsources |-> j]]

\* workflow.py:75: research_data.append(summary.model_dump())
AppendNonEmptySummary(data, summary) ==
    IF summary.sources = <<>> THEN data ELSE Append(data, summary)

AppendSummary(data, summary) == Append(data, summary)

\* workflow.py:69-74 -> ResearcherAgent.research_web: one lookup is sent on
\* the session for the current query of the current entry.
ResearchIssue ==
    /\ pc = "research"
    /\ ~ResearchLoopDone
    /\ inflight' = inflight + 1
    /\ pc' = Await("research_wait", "research")
    /\ UNCHANGED <<stage, stages, pending, ctlVars, sessVars, planVars, resVars,
                   deckVars, illVars, asmVars>>
    /\ UNCHANGED <<valVars, svcVars>>

\* The lookup resolves.  On success the next query of the entry follows, and
\* after the last one research_web returns the summary.  On failure
\* research_web degrades to an empty ranked list for this entry and returns.
\* The returned summary is appended and the loop moves to the next entry.
ResearchResolve ==
    /\ pc = "research_wait"
    /\ inflight' = inflight - 1
    /\ pc' = "research"
    /\ \/ /\ qIdx < plan[rIdx].search_queries
          /\ qIdx' = qIdx + 1
          /\ UNCHANGED <<research_data, rIdx, failedLookups>>
       \/ /\ qIdx = plan[rIdx].search_queries
          /\ qIdx' = 1
          /\ rIdx' = rIdx + 1
          /\ research_data' =
                 AppendSummary(research_data, ResearchSummary(plan[rIdx], qIdx))
          /\ UNCHANGED failedLookups
       \/ /\ qIdx' = 1
          /\ rIdx' = rIdx + 1
          /\ failedLookups' = failedLookups \cup {rIdx}
          /\ research_data' =
                 AppendSummary(research_data, ResearchSummary(plan[rIdx], 0))
    /\ UNCHANGED <<stage, stages, pending, ctlVars, sessVars, planVars,
                   deckVars, illVars, asmVars>>
    /\ UNCHANGED <<valVars, svcVars>>

\* workflow.py:76-82: the research loop is over, Step 3 begins.
ResearchDone ==
    /\ pc = "research"
    /\ ResearchLoopDone
    /\ pc' = "drafting"
    /\ Enter("Drafting")
    /\ UNCHANGED <<pending, ctlVars, sessVars, inflight, planVars, resVars,
                   deckVars, illVars, asmVars>>
    /\ UNCHANGED <<valVars, svcVars>>

\* ------------------------------------------------------------ DraftingStage
\* workflow.py:83-89 -> WriterAgent.prepare_presentation: one completion call
\* for the whole deck; a deck without a well-formed chart request is rejected.
Draft ==
    /\ pc = "drafting"
    /\ \E deck \in Decks(Len(plan)) :
          /\ drafted' = deck
          /\ \/ /\ ChartConstraint(deck)
                /\ deck_content' = deck
                /\ pc' = "extract"
                /\ Enter("Illustrating")
                /\ UNCHANGED pending
             \/ /\ ~ChartConstraint(deck)
                /\ Raise("DraftingConstraintViolation")
                /\ UNCHANGED <<deck_content, stage, stages>>
    /\ UNCHANGED <<ctlVars, sessVars, inflight, planVars, resVars,
                   visual_requests, illVars, asmVars>>
    /\ UNCHANGED <<valVars, svcVars>>

\* ------------------------------------------------------- IllustrationStage
\* workflow.py:94: `slide.visual_request` on a slide that defines no such
\* attribute raises AttributeError.
HasVisualRequestAttr(slide) == slide.visual_request # NoAttr

\* workflow.py:95-96: req = slide.visual_request.model_dump();
\* req["slide_number"] = i, with i counted from 0.
TaggedRequest(vr, i) ==
    [type |-> vr.type, data_json |-> vr.data_json, slide_number |-> i]

\* workflow.py:92-97: the requests of the slides that carry one, in slide
\* order.
RECURSIVE ExtractFrom(_, _)
ExtractFrom(slides, k) ==
    IF k > Len(slides) THEN <<>>
    ELSE IF slides[k].visual_request # None
         THEN <<TaggedRequest(slides[k].visual_request, k - 1)>>
              \o ExtractFrom(slides, k + 1)
         ELSE ExtractFrom(slides, k + 1)

\* The same requests, last slide first.
ExtractRequestsReversed(slides) ==
    [j \in 1..Len(ExtractFrom(slides, 1)) |->
        ExtractFrom(slides, 1)[Len(ExtractFrom(slides, 1)) + 1 - j]]

ExtractRequests(slides) == ExtractFrom(slides, 1)

Extract ==
    /\ pc = "extract"
    /\ IF \E i \in 1..Len(deck_content.slides) :
              ~HasVisualRequestAttr(deck_content.slides[i])
       THEN /\ Raise("AttributeError")
            /\ UNCHANGED <<visual_requests, invocations>>
       ELSE /\ visual_requests' = ExtractRequests(deck_content.slides)
            /\ invocations' =
                   [j \in 1..Len(ExtractRequests(deck_content.slides)) |-> 0]
            /\ pc' = "illustrate"
            /\ UNCHANGED pending
    /\ UNCHANGED <<stage, stages, ctlVars, sessVars, inflight, planVars,
                   resVars, drafted, deck_content, vIdx, assets, failedReqs,
                   asmVars>>
    /\ UNCHANGED <<valVars, svcVars>>

\* workflow.py:100 -> IllustratorAgent.create_visuals: the tool matching the
\* type of the next request is invoked on the session.
IllustrateIssue ==
    /\ pc = "illustrate"
    /\ vIdx <= Len(visual_requests)
    /\ inflight' = inflight + 1
    /\ invocations' = [invocations EXCEPT ![vIdx] = @ + 1]
    /\ pc' = Await("illustrate_wait", "illustrate")
    /\ UNCHANGED <<stage, stages, pending, ctlVars, sessVars, planVars, resVars,
                   deckVars, vIdx, assets, failedReqs, asmVars>>
    /\ UNCHANGED <<valVars, svcVars>>

\* create_visuals moves on to the next request whatever the invocation gave.
RetryFailedRequest(i, ok) == IF ok THEN i + 1 ELSE i

NextRequest(i, ok) == i + 1

\* The invocation resolves: a result becomes a GeneratedAsset, a failure is
\* logged and the request dropped; either way the next request follows.
IllustrateResolve ==
    /\ pc = "illustrate_wait"
    /\ inflight' = inflight - 1
    /\ pc' = "illustrate"
    /\ \E ok \in BOOLEAN :
          /\ vIdx' = NextRequest(vIdx, ok)
          /\ IF ok
             THEN /\ assets' =
                         Append(assets, GeneratedAsset(visual_requests[vIdx]))
                  /\ UNCHANGED failedReqs
             ELSE /\ failedReqs' = failedReqs \cup {vIdx}
                  /\ UNCHANGED assets
    /\ UNCHANGED <<stage, stages, pending, ctlVars, sessVars, planVars, resVars,
                   deckVars, invocations, asmVars>>
    /\ UNCHANGED <<valVars, svcVars>>

\* ------------------------------------------------------ AssemblyReconciler
\* workflow.py:117-119: next((a for a in assets if a.slide_number == i), None)
MatchingAssets(as, i) == { j \in 1..Len(as) : as[j].slide_number = i }

FirstMatch(as, i) ==
    as[CHOOSE j \in MatchingAssets(as, i) :
           \A k \in MatchingAssets(as, i) : j <= k]

ReconcileSlideOneBased(slides, as, k) ==
    [title |-> slides[k].title,
     points |-> slides[k].points,
     image |-> IF MatchingAssets(as, k) # {}
               THEN FirstMatch(as, k).file_path
               ELSE None]

\* workflow.py:108-123: one payload entry per drafted slide, in slide order;
\* the image is the path of the asset of that slide number, else None.
ReconcileSlide(slides, as, k) ==
    [title |-> slides[k].title,
     points |-> slides[k].points,
     image |-> IF MatchingAssets(as, k - 1) # {}
               THEN FirstMatch(as, k - 1).file_path
               ELSE None]

ReconcileInnerJoin(slides, as) ==
    SelectSeq([k \in 1..Len(slides) |-> ReconcileSlide(slides, as, k)],
              LAMBDA e : e.image # None)

Reconcile(slides, as) ==
    [k \in 1..Len(slides) |-> ReconcileSlide(slides, as, k)]

\* workflow.py:103-123: create_visuals has returned, Step 5 begins and the
\* final payload is built.
IllustrateDone ==
    /\ pc = "illustrate"
    /\ vIdx > Len(visual_requests)
    /\ final_slides_payload' = Reconcile(deck_content.slides, assets)
    /\ pc' = "assemble"
    /\ Enter("Assembling")
    /\ UNCHANGED <<pending, ctlVars, sessVars, inflight, planVars, resVars,
                   deckVars, illVars, toolCalls, toolAnswer, toolResult,
                   files>>
    /\ UNCHANGED <<valVars, svcVars>>

\* --------------------------------------------------- document-assembly tool
Pptx(name) == <<name, "pptx">>

\* The slides_content argument: a string that is not JSON, or the JSON text of
\* a value that cannot be iterated (a number, null), or of one that can: a
\* list, or a string or an object, whose members are then strings.
NotJson == [json |-> FALSE, iterable |-> FALSE, entries |-> <<>>]

JsonScalar == [json |-> TRUE, iterable |-> FALSE, entries |-> <<>>]

JsonIterable(entries) == [json |-> TRUE, iterable |-> TRUE, entries |-> entries]

\* The members the loop of tools.py:42-57 can meet: an object with a title and
\* a list of points ("slide"), an object without them ("bare": the defaults of
\* .get are used), a string ("text": it has no .get), an object whose points
\* cannot be iterated ("badpoints").
EntryKinds == {"slide", "bare", "text", "badpoints"}

\* tools.py:50, 55: what building the slide of one member raises.
EntryError(e) ==
    IF e = "text" THEN "AttributeError"
    ELSE IF e = "badpoints" THEN "TypeError"
    ELSE "none"

RECURSIVE FirstError(_, _)
FirstError(entries, k) ==
    IF k > Len(entries) THEN "none"
    ELSE IF EntryError(entries[k]) # "none" THEN EntryError(entries[k])
    ELSE FirstError(entries, k + 1)

\* tools.py:39-61: the body of the try; what it raises, "none" if it ran to
\* the return.
TryBody(slides_content, disk) ==
    IF ~slides_content.json THEN "JSONDecodeError"
    ELSE IF ~slides_content.iterable THEN "TypeError"
    ELSE IF FirstError(slides_content.entries, 1) # "none"
         THEN FirstError(slides_content.entries, 1)
    ELSE IF disk # "writable" THEN "FileNotFoundError"
    ELSE "none"

\* tools.py:62: except Exception.
CaughtJsonErrorOnly(error) == error = "JSONDecodeError"

Caught(error) == TRUE

\* mcp_server/tools.py create_presentation: any exception of parsing,
\* building or saving is caught and returned as an error message; the
\* artifact FILE_PATH/<filename>.pptx exists only after prs.save succeeded.
create_presentation(filename, content, disk, onDisk) ==
    IF TryBody(content, disk) = "none"
    THEN [message |-> "Successfully saved presentation", raised |-> "none",
          path |-> Pptx(filename), files |-> onDisk \cup {Pptx(filename)}]
    ELSE IF Caught(TryBody(content, disk))
    THEN [message |-> "Error creating PPT", raised |-> "none",
          path |-> <<>>, files |-> onDisk]
    ELSE [message |-> "none", raised |-> TryBody(content, disk),
          path |-> <<>>, files |-> onDisk]

\* WriterAgent.write_presentation serialises one object per slide of the deck.
SlidesJson(slides) == JsonIterable([k \in 1..Len(slides) |-> "slide"])

\* workflow.py:126-131 -> WriterAgent.write_presentation: the tool is invoked
\* once on the session with the target filename.
AssembleIssue ==
    /\ pc = "assemble"
    /\ inflight' = inflight + 1
    /\ toolCalls' = toolCalls + 1
    /\ pc' = Await("assemble_wait", "assemble_wait")
    /\ UNCHANGED <<stage, stages, pending, ctlVars, sessVars, planVars, resVars,
                   deckVars, illVars, final_slides_payload, toolAnswer,
                   toolResult, files>>
    /\ UNCHANGED <<valVars, svcVars>>

\* workflow.py:133: the name the run reports.
final_filename(deck) == Pptx(deck.filename_suggestion)

\* tools.py:28-63: the server process runs create_presentation for the
\* invocation it was sent.  The run is suspended at workflow.py:126 meanwhile,
\* or is already leaving after a cancellation or a transport failure; the
\* server lives until stdio_client is left.
AssembleTool ==
    /\ toolCalls = 1
    /\ toolAnswer = "none"
    /\ transport = "open"
    /\ \E disk \in {"writable", "unwritable"} :
          LET r == create_presentation(pprt_id, SlidesJson(deck_content.slides),
                                       disk, files) IN
          /\ toolAnswer' = r.message
          /\ files' = r.files
    /\ UNCHANGED <<pc, stage, stages, pending, ctlVars, sessVars, inflight,
                   planVars, resVars, deckVars, illVars, final_slides_payload,
                   toolCalls, toolResult>>
    /\ UNCHANGED <<valVars, svcVars>>

\* The invocation resolves with the tool's answer, or fails in transport
\* (before or after the tool has run).  workflow.py:126-135: the awaited value
\* is dropped and final_filename is returned.
AssembleResolve ==
    /\ pc = "assemble_wait"
    /\ inflight' = inflight - 1
    /\ \/ /\ toolAnswer # "none"
          /\ toolResult' = toolAnswer
          /\ pending' = [kind |-> "returned",
                         value |-> final_filename(deck_content)]
          /\ pc' = "aexit"
       \/ /\ Raise("ToolError")
          /\ UNCHANGED toolResult
    /\ UNCHANGED <<stage, stages, ctlVars, sessVars, planVars, resVars,
                   deckVars, illVars, final_slides_payload, toolCalls,
                   toolAnswer, files>>
    /\ UNCHANGED <<valVars, svcVars>>

\* ------------------------------------------------------------- exit paths
\* The points where run_ppt_workflow is suspended and can be cancelled: the
\* awaits of workflow.py:43-126 and, at lines 41-42, the entry and the exit of
\* the two `async with` blocks.
AwaitPoints ==
    {"requested", "session_enter",
     "initialize_wait", "list_tools_wait", "planning", "research_wait",
     "drafting", "illustrate_wait", "assemble_wait",
     "aexit", "stdio_exit"}

\* workflow.py:41-42: `async with` runs __aexit__ on every way out of the
\* block, whatever travels through it.
ReleasedOnReturnOnly(p) == p.kind = "returned"

ReleasedOnExit(p) == TRUE

\* ClientSession.__aexit__ has run for what travels out.
CloseSession(p) ==
    IF ReleasedOnExit(p)
    THEN session' = "closed" /\ closes' = closes + 1
    ELSE UNCHANGED <<session, closes>>

\* Teardown of an abandoned run: CancelledError is raised at the await.
\* Raised while a block is being left, it replaces what was travelling out,
\* and the block is left all the same.
Cancel ==
    /\ pc \in AwaitPoints
    /\ inflight' = 0
    /\ pending' = [kind |-> "raised", error |-> "CancelledError",
                   stage |-> stage]
    /\ IF pc = "aexit"
       THEN /\ CloseSession(pending')
            /\ pc' = "stdio_exit"
            /\ UNCHANGED transport
       ELSE IF pc = "stdio_exit"
       THEN /\ transport' = "closed"
            /\ pc' = "finish"
            /\ UNCHANGED <<session, closes>>
       ELSE /\ pc' = ExitFrom
            /\ UNCHANGED <<session, closes, transport>>
    /\ UNCHANGED <<stage, stages, ctlVars, opens, initialized, planVars,
                   resVars, deckVars, illVars, asmVars>>
    /\ UNCHANGED <<valVars, svcVars>>

\* workflow.py:42: the awaited exit of ClientSession resolves.
AExit ==
    /\ pc = "aexit"
    /\ CloseSession(pending)
    /\ pc' = "stdio_exit"
    /\ UNCHANGED <<stage, stages, pending, ctlVars, opens, initialized,
                   transport, inflight, planVars, resVars, deckVars, illVars,
                   asmVars>>
    /\ UNCHANGED <<valVars, svcVars>>

\* workflow.py:41: the awaited exit of stdio_client resolves.
StdioExit ==
    /\ pc = "stdio_exit"
    /\ transport' = "closed"
    /\ pc' = "finish"
    /\ UNCHANGED <<stage, stages, pending, ctlVars, session, opens, closes,
                   initialized, inflight, planVars, resVars, deckVars, illVars,
                   asmVars>>
    /\ UNCHANGED <<valVars, svcVars>>

\* run_ppt_workflow is left: its value is returned to, or its exception
\* raised into, the background task that called it.
Finish ==
    /\ pc = "finish"
    /\ outcome' = pending
    /\ Enter(IF pending.kind = "returned" THEN "Ready" ELSE "Failed")
    /\ pc' = "done"
    /\ UNCHANGED <<pending, response, num_slides, sessVars, inflight, planVars,
                   resVars, deckVars, illVars, asmVars>>
    /\ UNCHANGED <<valVars, svcVars>>

\* The steps of the background run once it is scheduled.
RunStep ==
    \/ StartServer
    \/ OpenSession
    \/ InitializeIssue
    \/ InitializeResolve
    \/ ListToolsIssue
    \/ ListToolsResolve
    \/ PlannerReject
    \/ PlannerAttempt
    \/ ResearchIssue
    \/ ResearchResolve
    \/ ResearchDone
    \/ Draft
    \/ Extract
    \/ IllustrateIssue
    \/ IllustrateResolve
    \/ IllustrateDone
    \/ AssembleIssue
    \/ AssembleTool
    \/ AssembleResolve
    \/ Cancel
    \/ AExit
    \/ StdioExit
    \/ Finish

Next ==
    \/ \E n \in 0..MaxSlides : generate_ppt(n)
    \/ RunStep

Spec == Init /\ [][Next]_vars

\* --------------------------------------------------------- SourceValidator
\* helper/source_validator.py.  A URL string is modelled as the sequence of
\* its lexical tokens: words (runs of letters, digits and dots) and the
\* delimiters : / ? # ; that urllib.parse looks for.
MaxUrlLen == 6

Delimiters == {":", "/", "?", "#", ";"}

\* The tokens the enumerated URLs are made of.
UrlTokens == {"http", "x", ":", "/", "?", "#"}

\* Words that begin with an ASCII letter (url[0].isalpha()).
AlphaLed == {"http", "HTTP", "x", "www"}

\* str.lower() on a word.
Lower(t) == IF t = "HTTP" THEN "http" ELSE t

\* urllib.parse.uses_netloc and uses_params, restricted to the schemes that can
\* be written with the words above (both lists hold '' and 'http').
uses_netloc == {<<>>, <<"http">>}

uses_params == {<<>>, <<"http">>}

\* s[:n] and s[n-1:] of Python, with positions counted from 1.
Prefix(s, n) == SubSeq(s, 1, IF n < Len(s) THEN n ELSE Len(s))

Suffix(s, n) == SubSeq(s, n, Len(s))

\* str.find(c, from) and str.rfind(c): 0 when c does not occur.
Find(s, c, from) ==
    IF \E i \in from..Len(s) : s[i] = c
    THEN CHOOSE i \in from..Len(s) :
             s[i] = c /\ \A j \in from..(i - 1) : s[j] # c
    ELSE 0

RFind(s, c) ==
    IF \E i \in 1..Len(s) : s[i] = c
    THEN CHOOSE i \in 1..Len(s) :
             s[i] = c /\ \A j \in (i + 1)..Len(s) : s[j] # c
    ELSE 0

\* urllib.parse._splitnetloc(url, 2): the netloc ends at the first of / ? #.
splitnetloc(u) ==
    LET ends == { i \in 3..Len(u) : u[i] \in {"/", "?", "#"} }
        delim == IF ends = {} THEN Len(u) + 1
                 ELSE CHOOSE i \in ends : \A j \in ends : i <= j
    IN  [netloc |-> SubSeq(u, 3, delim - 1), rest |-> Suffix(u, delim)]

\* urllib.parse.urlsplit, last step: `if '?' in url: url, query = url.split('?', 1)`.
SplitQuery(scheme, netloc, rest, fragment) ==
    LET q == Find(rest, "?", 1)
    IN  [scheme |-> scheme, netloc |-> netloc,
         path |-> IF q > 0 THEN Prefix(rest, q - 1) ELSE rest,
         query |-> IF q > 0 THEN Suffix(rest, q + 1) ELSE <<>>,
         fragment |-> fragment]

\* urllib.parse.urlsplit: `if '#' in url: url, fragment = url.split('#', 1)`.
SplitFragment(scheme, netloc, rest) ==
    LET h == Find(rest, "#", 1)
    IN  IF h > 0
        THEN SplitQuery(scheme, netloc, Prefix(rest, h - 1), Suffix(rest, h + 1))
        ELSE SplitQuery(scheme, netloc, rest, <<>>)

\* urllib.parse.urlsplit: `if url[:2] == '//': netloc, url = _splitnetloc(url, 2)`.
SplitNetloc(scheme, rest) ==
    IF Prefix(rest, 2) = <<"/", "/">>
    THEN SplitFragment(scheme, splitnetloc(rest).netloc, splitnetloc(rest).rest)
    ELSE SplitFragment(scheme, <<>>, rest)

\* urllib.parse.urlsplit: a scheme is what precedes the first colon, if it
\* begins with a letter and holds scheme characters only; it is lower-cased.
urlsplit(u) ==
    LET i == Find(u, ":", 1)
    IN  IF /\ i > 1
           /\ u[1] \in AlphaLed
           /\ \A k \in 1..(i - 1) : u[k] \notin Delimiters
        THEN SplitNetloc([k \in 1..(i - 1) |-> Lower(u[k])], Suffix(u, i + 1))
        ELSE SplitNetloc(<<>>, u)

\* urllib.parse._splitparams: the parameters of the last path segment.
splitparams(p) ==
    LET i == IF Find(p, "/", 1) > 0 THEN Find(p, ";", RFind(p, "/"))
             ELSE Find(p, ";", 1)
    IN  IF i = 0 THEN [url |-> p, params |-> <<>>]
        ELSE [url |-> Prefix(p, i - 1), params |-> Suffix(p, i + 1)]

\* urllib.parse.urlparse: the parameters are split off the path of the
\* urlsplit result s when the scheme uses parameters.
WithParams(s) ==
    IF s.scheme \in uses_params /\ Find(s.path, ";", 1) > 0
    THEN [scheme |-> s.scheme, netloc |-> s.netloc,
          path |-> splitparams(s.path).url,
          params |-> splitparams(s.path).params,
          query |-> s.query, fragment |-> s.fragment]
    ELSE [scheme |-> s.scheme, netloc |-> s.netloc, path |-> s.path,
          params |-> <<>>, query |-> s.query, fragment |-> s.fragment]

urlparse(u) == WithParams(urlsplit(u))

\* urllib.parse.urlunsplit writes the authority marker "//" of a URL without a
\* netloc differently in the interpreters the code runs on: CPython up to
\* 3.12.1 ("3.11") writes it, and a "/" before a relative path, for every
\* scheme of uses_netloc unless the path begins with "//"; CPython 3.13 writes
\* it before a path that begins with "//", and for a scheme of uses_netloc
\* only when the path is empty or begins with "/".
Interpreters == {"3.11", "3.13"}

\* urllib.parse.urlunsplit.
urlunsplit(py, scheme, netloc, path, query, fragment) ==
    LET Rooted(p) == IF p # <<>> /\ p[1] # "/" THEN <<"/">> \o p ELSE p
        u1 == IF netloc # <<>> THEN <<"/", "/">> \o netloc \o Rooted(path)
              ELSE IF py = "3.13"
              THEN IF Prefix(path, 2) = <<"/", "/">>
                   THEN <<"/", "/">> \o path
                   ELSE IF /\ scheme # <<>>
                           /\ scheme \in uses_netloc
                           /\ (path = <<>> \/ path[1] = "/")
                   THEN <<"/", "/">> \o path
                   ELSE path
              ELSE IF /\ scheme # <<>>
                      /\ scheme \in uses_netloc
                      /\ Prefix(path, 2) # <<"/", "/">>
              THEN <<"/", "/">> \o Rooted(path)
              ELSE path
        u2 == IF scheme # <<>> THEN scheme \o <<":">> \o u1 ELSE u1
        u3 == IF query # <<>> THEN u2 \o <<"?">> \o query ELSE u2
    IN  IF fragment # <<>> THEN u3 \o <<"#">> \o fragment ELSE u3

\* urllib.parse.urlunparse.
urlunparse(py, scheme, netloc, path, params, query, fragment) ==
    urlunsplit(py, scheme, netloc,
               IF params # <<>> THEN path \o <<";">> \o params ELSE path,
               query, fragment)

\* source_validator.py:13-24.
normalize_url(py, u) ==
    LET parsed == urlparse(u)
    IN  urlunparse(py, parsed.scheme, parsed.netloc, parsed.path,
                   <<>>, <<>>, <<>>)

\* URLs as search results carry them: a page with a query, a page with
\* parameters, query and fragment, an upper-case scheme, hosts of the trusted
\* suffixes, one of them with an explicit port.
PageUrl == <<"http", ":", "/", "/", "www", ".com", "/", "x", "?", "x">>

ParamsUrl ==
    <<"http", ":", "/", "/", "www", ".com", "/", "x", ";", "x", "?", "x", "#",
      "x">>

UpperUrl == <<"HTTP", ":", "/", "/", "www", ".com", "/", "x", "#", "x">>

EduUrl == <<"http", ":", "/", "/", "www", ".edu", "/", "x">>

GovPortUrl == <<"http", ":", "/", "/", "www", ".gov", ":", "80", "/", "x">>

\* The arguments normalize_url is applied to: every token sequence up to
\* MaxUrlLen, and the URLs above.
Urls ==
    UNION { [1..n -> UrlTokens] : n \in 0..MaxUrlLen }
      \cup {PageUrl, ParamsUrl, UpperUrl, EduUrl, GovPortUrl}

\* ---- validate_url
\* The provider confidence is given in hundred-thousandths (80000 is 0.8) and
\* scores in thousandths of a point (80000 is 80.0).  0.59995, 0.69995 and
\* 0.79995 put final_score next to a rounding tie, 0.79625 exactly on one.
Confidences ==
    {0, 50001, 50002, 59990, 59995, 60000, 69995, 79625, 79990, 79995, 79996,
     80000, 100000}

\* ---- the floats of validate_url
\* tavily_confidence, base_points and final_score are Python floats (IEEE-754
\* binary64).  Every value validate_url computes is a multiple of 2^-73 and
\* smaller than 2^17, so a float x is modelled by the integer x * 2^73,
\* written with Width digits of base Limb, lowest digit first.  Each operation
\* gives the exact result rounded to 53 significant bits, ties to even, as the
\* hardware does.
Limb == 2^15

Width == 7

FracBits == 73

\* A number below Limb^2.
Small(k) ==
    [i \in 1..Width |-> IF i = 1 THEN k % Limb
                        ELSE IF i = 2 THEN k \div Limb ELSE 0]

\* n * k and n + m, digit by digit with a carry.
RECURSIVE TimesFrom(_, _, _, _)
TimesFrom(n, k, i, carry) ==
    IF i > Width THEN <<>>
    ELSE <<(n[i] * k + carry) % Limb>>
           \o TimesFrom(n, k, i + 1, (n[i] * k + carry) \div Limb)

Times(n, k) == TimesFrom(n, k, 1, 0)

RECURSIVE PlusFrom(_, _, _, _)
PlusFrom(n, m, i, carry) ==
    IF i > Width THEN <<>>
    ELSE <<(n[i] + m[i] + carry) % Limb>>
           \o PlusFrom(n, m, i + 1, (n[i] + m[i] + carry) \div Limb)

Plus(n, m) == PlusFrom(n, m, 1, 0)

\* n \div d and n % d for a divisor below Limb, from the highest digit down.
RECURSIVE QuotFrom(_, _, _, _)
QuotFrom(n, d, i, rem) ==
    IF i = 0 THEN <<>>
    ELSE QuotFrom(n, d, i - 1, (rem * Limb + n[i]) % d)
           \o <<(rem * Limb + n[i]) \div d>>

RECURSIVE RemFrom(_, _, _, _)
RemFrom(n, d, i, rem) ==
    IF i = 0 THEN rem ELSE RemFrom(n, d, i - 1, (rem * Limb + n[i]) % d)

\* n * 2^s, n \div 2^s, and whether the s bits dropped by the latter are 0:
\* whole digits are moved, the other bits multiplied or divided.
ShiftLeft(n, s) ==
    Times([i \in 1..Width |-> IF i <= s \div 15 THEN 0 ELSE n[i - s \div 15]],
          2^(s % 15))

ShiftRight(n, s) ==
    QuotFrom([i \in 1..Width |->
                 IF i + s \div 15 <= Width THEN n[i + s \div 15] ELSE 0],
             2^(s % 15), Width, 0)

DroppedZero(n, s) ==
    /\ \A i \in 1..(s \div 15) : n[i] = 0
    /\ n[s \div 15 + 1] % 2^(s % 15) = 0

\* The number of bits of a digit, and of a number.
RECURSIVE BitsOf(_)
BitsOf(v) == IF v = 0 THEN 0 ELSE 1 + BitsOf(v \div 2)

RECURSIVE BitLength(_, _)
BitLength(n, i) ==
    IF i = 0 THEN 0
    ELSE IF n[i] # 0 THEN 15 * (i - 1) + BitsOf(n[i])
    ELSE BitLength(n, i - 1)

\* Round to nearest, ties to even: q holds the bits kept, half is the first
\* bit dropped, sticky tells that a later one is set.
RoundedUp(q, half, sticky) ==
    IF half /\ (sticky \/ q[1] % 2 = 1) THEN Plus(q, Small(1)) ELSE q

RoundAt(n, s, inexact) ==
    ShiftLeft(RoundedUp(ShiftRight(n, s),
                        ShiftRight(n, s - 1)[1] % 2 = 1,
                        inexact \/ ~DroppedZero(n, s - 1)),
              s)

\* The double nearest to n (to n and a little more when inexact).
RoundTo53(n, inexact) ==
    IF BitLength(n, Width) <= 53 THEN n
    ELSE RoundAt(n, BitLength(n, Width) - 53, inexact)

\* The float a confidence of c hundred-thousandths arrives as: the double
\* nearest to c / 100000 = c / (2^5 * 3125).
Float(c) ==
    RoundTo53(QuotFrom(ShiftLeft(Small(c), FracBits - 5), 3125, Width, 0),
              RemFrom(ShiftLeft(Small(c), FracBits - 5), 3125, Width, 0) # 0)

\* source_validator.py:70: tavily_confidence * 100.
FloatTimes(x, k) == RoundTo53(Times(x, k), FALSE)

\* source_validator.py:91, 93, 98: final_score += k.
FloatPlus(x, k) == RoundTo53(Plus(x, ShiftLeft(Small(k), FracBits)), FALSE)

\* source_validator.py:100: round(final_score, 2), the hundredth nearest to
\* the stored value, the even one when the value lies halfway; the result is
\* given in thousandths of a point.  t is twice the whole number of hundredths
\* of x plus the next bit.
HalfEven(t, sticky) ==
    t \div 2 + (IF t % 2 = 1 /\ (sticky \/ (t \div 2) % 2 = 1) THEN 1 ELSE 0)

Round2(x) ==
    10 * HalfEven(ShiftRight(Times(x, 100), FracBits - 1)[1]
                    + Limb * ShiftRight(Times(x, 100), FracBits - 1)[2],
                  ~DroppedZero(Times(x, 100), FracBits - 1))

\* get_metadata: the content of a meta tag is None (no tag, or no content
\* attribute), the empty string, or a text.
MetaValues == {"None", "", "text"}

\* `if meta["author"]:` -- None and "" are falsy.
Truthy(v) == v \notin {"None", ""}

\* What requests.get(clean_url) does: it raises (unreachable, timeout), or it
\* answers with a status code; the body of a 200 answer either parses, giving
\* the meta values, or makes the parser raise.
Responses ==
    { [kind |-> "exception", status_code |-> 0, parses |-> FALSE,
       author |-> "None", date |-> "None"] }
      \cup { [kind |-> "answer", status_code |-> c, parses |-> FALSE,
              author |-> "None", date |-> "None"] : c \in {200, 204, 304, 404, 500} }
      \cup { [kind |-> "answer", status_code |-> 200, parses |-> TRUE,
              author |-> a, date |-> d] : a \in MetaValues, d \in MetaValues }

\* source_validator.py:78: the health check.
HealthyBelow400(code) == code < 400

Healthy(code) == code = 200

\* source_validator.py:96-98: domain.endswith((".edu", ".gov")).
TrustedDomain(netloc) ==
    netloc # <<>> /\ netloc[Len(netloc)] \in {".edu", ".gov"}

\* source_validator.py:103-108.
TierOf(score) ==
    IF score >= 80000 THEN "S" ELSE IF score >= 60000 THEN "A" ELSE "B"

\* source_validator.py:60-113 (details is left out of the result).
validate_url(py, u, confidence, resp) ==
    LET clean == normalize_url(py, u)
        base_points == FloatTimes(Float(confidence), 100)
        dead == [url |-> clean, status |-> "dead", score |-> 0, tier |-> "C"]
        with_author ==
            IF Truthy(resp.author) THEN FloatPlus(base_points, 10)
            ELSE base_points
        with_date ==
            IF Truthy(resp.date) THEN FloatPlus(with_author, 5)
            ELSE with_author
        final_score ==
            IF TrustedDomain(urlparse(clean).netloc)
            THEN FloatPlus(with_date, 15) ELSE with_date
        rounded == Round2(final_score)
        score == IF rounded <= 100000 THEN rounded ELSE 100000
    IN  IF resp.kind = "exception" THEN dead
        ELSE IF ~Healthy(resp.status_code) THEN dead
        ELSE IF ~resp.parses THEN [dead EXCEPT !.status = "live"]
        ELSE [url |-> clean, status |-> "live", score |-> score,
              tier |-> TierOf(score)]

\* ---- normalize_url applied to a url, and again to its result.
InitUrl ==
    /\ WorkflowIdle
    /\ vpc = "normalize"
    /\ interpreter \in Interpreters
    /\ url \in Urls
    /\ clean_url = <<>>
    /\ reclean_url = <<>>
    /\ tavily_confidence = 0
    /\ other_confidence = 0
    /\ http_response = None
    /\ result = None
    /\ other_result = None
    /\ BatchOff
    /\ ServiceOff

NormalizeUrl ==
    /\ vpc = "normalize"
    /\ clean_url' = normalize_url(interpreter, url)
    /\ vpc' = "normalized"
    /\ UNCHANGED <<interpreter, url, reclean_url, tavily_confidence,
                   other_confidence, http_response, result, other_result>>
    /\ UNCHANGED batchVars
    /\ UNCHANGED <<wfVars, svcVars>>

NormalizeAgain ==
    /\ vpc = "normalized"
    /\ reclean_url' = normalize_url(interpreter, clean_url)
    /\ vpc' = "renormalized"
    /\ UNCHANGED <<interpreter, url, clean_url, tavily_confidence,
                   other_confidence, http_response, result, other_result>>
    /\ UNCHANGED batchVars
    /\ UNCHANGED <<wfVars, svcVars>>

NextUrl ==
    \/ NormalizeUrl
    \/ NormalizeAgain

SpecUrl == InitUrl /\ [][NextUrl]_vars

\* ---- validate_url applied to a url under two confidences, the answer of
\* the site being the same.
RankUrls == {PageUrl, UpperUrl, EduUrl, GovPortUrl}

InitRank ==
    /\ WorkflowIdle
    /\ vpc = "validate"
    /\ interpreter \in Interpreters
    /\ url \in RankUrls
    /\ clean_url = <<>>
    /\ reclean_url = <<>>
    /\ tavily_confidence \in Confidences
    /\ other_confidence \in Confidences
    /\ http_response \in Responses
    /\ result = None
    /\ other_result = None
    /\ BatchOff
    /\ ServiceOff

ValidateUrl ==
    /\ vpc = "validate"
    /\ result' =
          validate_url(interpreter, url, tavily_confidence, http_response)
    /\ clean_url' = normalize_url(interpreter, url)
    /\ vpc' = "validated"
    /\ UNCHANGED <<interpreter, url, reclean_url, tavily_confidence,
                   other_confidence, http_response, other_result>>
    /\ UNCHANGED batchVars
    /\ UNCHANGED <<wfVars, svcVars>>

ValidateOther ==
    /\ vpc = "validated"
    /\ other_result' =
          validate_url(interpreter, url, other_confidence, http_response)
    /\ vpc' = "compared"
    /\ UNCHANGED <<interpreter, url, clean_url, reclean_url,
                   tavily_confidence, other_confidence, http_response, result>>
    /\ UNCHANGED batchVars
    /\ UNCHANGED <<wfVars, svcVars>>

NextRank ==
    \/ ValidateUrl
    \/ ValidateOther

SpecRank == InitRank /\ [][NextRank]_vars

\* ---- rank_sources applied to a batch of records.
MaxBatch == 3

\* dict.get(key, default).
Get(item, key, default) == IF key \in DOMAIN item THEN item[key] ELSE default

Unreachable ==
    [kind |-> "exception", status_code |-> 0, parses |-> FALSE,
     author |-> "None", date |-> "None"]

NotFound ==
    [kind |-> "answer", status_code |-> 404, parses |-> FALSE,
     author |-> "None", date |-> "None"]

Unparseable ==
    [kind |-> "answer", status_code |-> 200, parses |-> FALSE,
     author |-> "None", date |-> "None"]

BarePage ==
    [kind |-> "answer", status_code |-> 200, parses |-> TRUE,
     author |-> "None", date |-> "None"]

SignedPage ==
    [kind |-> "answer", status_code |-> 200, parses |-> TRUE,
     author |-> "text", date |-> "text"]

\* The records of a batch, before their position is written into them, each
\* with the answer of its site: a record may lack "score" or "url", and
\* requests.get raises on the empty url.
BatchEntries ==
    { [item |-> i, answer |-> a] :
        i \in { [url |-> PageUrl, score |-> 50001],
                [url |-> PageUrl, score |-> 50002],
                [url |-> EduUrl] },
        a \in {Unreachable, NotFound, Unparseable, BarePage, SignedPage} }
      \cup { [item |-> [score |-> 80000], answer |-> Unreachable] }

\* The record at position i of the argument: "title" tells the records apart.
Titled(i, item) == ("title" :> i) @@ item

InitBatch ==
    /\ WorkflowIdle
    /\ vpc = "rank"
    /\ interpreter \in Interpreters
    /\ url = <<>>
    /\ clean_url = <<>>
    /\ reclean_url = <<>>
    /\ tavily_confidence = 0
    /\ other_confidence = 0
    /\ http_response = None
    /\ result = None
    /\ other_result = None
    /\ \E n \in 0..MaxBatch : \E b \in [1..n -> BatchEntries] :
          /\ raw_results = [i \in 1..n |-> Titled(i, b[i].item)]
          /\ answers = [i \in 1..n |-> b[i].answer]
    /\ ranked_results = <<>>
    /\ ranking = <<>>
    /\ ServiceOff

\* source_validator.py:124: {**item, "validation": validation}.
ranked_item(item, validation) == ("validation" :> validation) @@ item

\* source_validator.py:119-125: one iteration of the loop.
RankItem ==
    /\ vpc = "rank"
    /\ Len(ranked_results) < Len(raw_results)
    /\ LET i == Len(ranked_results) + 1
           item == raw_results[i]
           u == Get(item, "url", <<>>)
           t_score == Get(item, "score", 50000)
           validation == validate_url(interpreter, u, t_score, answers[i])
       IN  /\ url' = u
           /\ tavily_confidence' = t_score
           /\ http_response' = answers[i]
           /\ clean_url' = normalize_url(interpreter, u)
           /\ result' = validation
           /\ ranked_results' =
                  Append(ranked_results, ranked_item(item, validation))
    /\ UNCHANGED <<vpc, interpreter, reclean_url, other_confidence, other_result,
                   raw_results, answers, ranking>>
    /\ UNCHANGED <<wfVars, svcVars>>

\* sorted(..., key=..., reverse=True) is stable: a record goes behind every
\* record whose score is at least its own.
RECURSIVE InsertBeforeTies(_, _)
InsertBeforeTies(sorted, x) ==
    IF sorted = <<>> THEN <<x>>
    ELSE IF Head(sorted).validation.score > x.validation.score
         THEN <<Head(sorted)>> \o InsertBeforeTies(Tail(sorted), x)
         ELSE <<x>> \o sorted

RECURSIVE InsertByScore(_, _)
InsertByScore(sorted, x) ==
    IF sorted = <<>> THEN <<x>>
    ELSE IF Head(sorted).validation.score >= x.validation.score
         THEN <<Head(sorted)>> \o InsertByScore(Tail(sorted), x)
         ELSE <<x>> \o sorted

RECURSIVE SortedByScore(_)
SortedByScore(records) ==
    IF records = <<>> THEN <<>>
    ELSE InsertByScore(SortedByScore(SubSeq(records, 1, Len(records) - 1)),
                       records[Len(records)])

\* source_validator.py:126-130: the return.
RankReturn ==
    /\ vpc = "rank"
    /\ Len(ranked_results) = Len(raw_results)
    /\ ranking' = SortedByScore(ranked_results)
    /\ vpc' = "ranked"
    /\ UNCHANGED <<interpreter, url, clean_url, reclean_url,
                   tavily_confidence, other_confidence, http_response, result,
                   other_result, raw_results, answers, ranked_results>>
    /\ UNCHANGED <<wfVars, svcVars>>

NextBatch ==
    \/ RankItem
    \/ RankReturn

SpecBatch == InitBatch /\ [][NextBatch]_vars

\* ---- the status stream and the download of the presentation pprt_id.
\* router.py:106, 108.
max_wait_time == 1200

interval == 30

\* os.path.exists(FILE_PATH/<id>.pptx), router.py:81 and 111.
Exists(id, disk) == Pptx(id) \in disk

\* router.py:110: the loop condition.
LoopContinuesInclusive(e) == e <= max_wait_time

LoopContinues(e) == e < max_wait_time

\* router.py:113, 115, 121: the events.
ReadyEvent(id) == [status |-> "ready", pprt_id |-> id]

ProcessingEvent(e) == [status |-> "processing", elapsed |-> e]

TimeoutEvent == [status |-> "timeout", message |-> "Generation timed out"]

\* router.py:89-108, 123-131: the stream is requested and event_stream starts.
presentation_status ==
    /\ spc = "off"
    /\ spc' = "check"
    /\ elapsed' = 0
    /\ UNCHANGED <<events, checks, download, toolVars>>
    /\ UNCHANGED <<wfVars, valVars>>

\* router.py:110-115: one check of the file, and the event it yields.
StreamCheck ==
    /\ spc = "check"
    /\ LoopContinues(elapsed)
    /\ checks' = Append(checks, Exists(pprt_id, files))
    /\ IF Exists(pprt_id, files)
       THEN /\ events' = Append(events, ReadyEvent(pprt_id))
            /\ spc' = "done"
       ELSE /\ events' = Append(events, ProcessingEvent(elapsed))
            /\ spc' = "sleep"
    /\ UNCHANGED <<elapsed, download, toolVars>>
    /\ UNCHANGED <<wfVars, valVars>>

\* router.py:116-117.
StreamSleep ==
    /\ spc = "sleep"
    /\ elapsed' = elapsed + interval
    /\ spc' = "check"
    /\ UNCHANGED <<events, checks, download, toolVars>>
    /\ UNCHANGED <<wfVars, valVars>>

\* router.py:119-121: the loop is left without a return.
StreamTimeout ==
    /\ spc = "check"
    /\ ~LoopContinues(elapsed)
    /\ events' = Append(events, TimeoutEvent)
    /\ spc' = "done"
    /\ UNCHANGED <<elapsed, checks, download, toolVars>>
    /\ UNCHANGED <<wfVars, valVars>>

StreamStep ==
    \/ StreamCheck
    \/ StreamSleep
    \/ StreamTimeout

\* router.py:115-116, 123-131: the client goes away and StreamingResponse
\* cancels the iteration of event_stream: before its first step, or where it
\* is suspended after a processing event (at the yield or in the sleep).  No
\* further event is produced.  After a final event the generator has nothing
\* left to emit.
ClientDisconnect ==
    /\ \/ spc = "sleep"
       \/ spc = "check" /\ events = <<>>
    /\ spc' = "cancelled"
    /\ UNCHANGED <<elapsed, events, checks, download, toolVars>>
    /\ UNCHANGED <<wfVars, valVars>>

\* router.py:66-86: the file if it exists, status Pending otherwise.
download_ppt ==
    /\ download' = IF Exists(pprt_id, files) THEN "file" ELSE "Pending"
    /\ UNCHANGED <<spc, elapsed, events, checks, toolVars>>
    /\ UNCHANGED <<wfVars, valVars>>

\* tools.py:59-60: the assembly tool of a run saves FILE_PATH/<pprt_id>.pptx
\* while the stream is watched.
ArtifactSaved ==
    /\ files' = files \cup {Pptx(pprt_id)}
    /\ UNCHANGED <<pc, stage, stages, outcome, pending, response, session,
                   opens, closes, initialized, transport, inflight, num_slides,
                   attempts,
                   invalidResults, plan, research_data, rIdx, qIdx,
                   failedLookups, drafted, deck_content, visual_requests, vIdx,
                   invocations, assets, failedReqs, final_slides_payload,
                   toolCalls, toolAnswer, toolResult>>
    /\ UNCHANGED <<valVars, svcVars>>

NextStatus ==
    \/ presentation_status
    \/ StreamStep
    \/ ClientDisconnect
    \/ download_ppt
    \/ ArtifactSaved

SpecStatus == Init /\ [][NextStatus]_vars

\* The event loop resumes event_stream after every yield and every sleep as
\* long as the client reads the stream; once the client has gone no step of
\* the generator is enabled.
FairStatus == SpecStatus /\ WF_vars(StreamStep)

\* ---- a run, the status stream and the download of its presentation side by
\* side: generate_ppt hands pprt_id to the run and to the client, who may
\* request the stream and the download at any moment.  The requests are for at
\* most ServiceSlides slides.
ServiceSlides == 1

NextService ==
    \/ \E n \in 0..ServiceSlides : generate_ppt(n)
    \/ RunStep
    \/ presentation_status
    \/ StreamStep
    \/ ClientDisconnect
    \/ download_ppt

SpecService == Init /\ [][NextService]_vars

FairService == SpecService /\ WF_vars(StreamStep)

\* ---- create_presentation called with arbitrary arguments.
MaxEntries == 2

SlidesContents ==
    {NotJson, JsonScalar}
      \cup { JsonIterable(e) :
               e \in UNION { [1..n -> EntryKinds] : n \in 0..MaxEntries } }

InitTool ==
    /\ WorkflowIdle
    /\ ValidatorOff
    /\ BatchOff
    /\ spc = "off"
    /\ elapsed = 0
    /\ events = <<>>
    /\ checks = <<>>
    /\ download = "none"
    /\ tool_args \in [filename : {pprt_id, "deck"},
                      slides_content : SlidesContents]
    /\ tool_disk \in {"writable", "unwritable"}
    /\ tool_return = None

\* tools.py:28-63: the call returns a message, or an exception leaves it.
CallTool ==
    /\ tool_return = None
    /\ LET r == create_presentation(tool_args.filename,
                                    tool_args.slides_content, tool_disk, files)
       IN  /\ tool_return' =
                  IF r.raised = "none"
                  THEN [kind |-> "returned", message |-> r.message,
                        path |-> r.path]
                  ELSE [kind |-> "raised", message |-> r.raised,
                        path |-> r.path]
           /\ files' = r.files
    /\ UNCHANGED <<pc, stage, stages, outcome, pending, response, session,
                   opens, closes, initialized, transport, inflight, num_slides,
                   attempts,
                   invalidResults, plan, research_data, rIdx, qIdx,
                   failedLookups, drafted, deck_content, visual_requests, vIdx,
                   invocations, assets, failedReqs, final_slides_payload,
                   toolCalls, toolAnswer, toolResult>>
    /\ UNCHANGED <<valVars, statusVars, tool_args, tool_disk>>

NextTool == CallTool

SpecTool == InitTool /\ [][NextTool]_vars

\* ------------------------------------------------------------------ claims
Reached(s) == \E i \in 1..Len(stages) : stages[i] = s

Terminal == {"Ready", "Failed"}

IsPrefix(a, b) == Len(a) <= Len(b) /\ \A i \in 1..Len(a) : a[i] = b[i]

Front(a) == SubSeq(a, 1, Len(a) - 1)

\* C1: the stages of a run are entered in the fixed order Requested,
\* Planning, Researching, Drafting, Illustrating, Assembling, Ready, none
\* skipped or repeated, a run may leave that order only for Failed, and only
\* from a stage before Ready; a stage is entered only when its predecessor's
\* whole output is there (the full outline, one summary per outline entry,
\* the deck, every visual request processed, the assembly tool resolved), and
\* nothing is enabled once Ready or Failed is reached.
C1_StageOrder ==
    /\ stage = stages[Len(stages)]
    /\ \/ IsPrefix(stages, StageOrder)
       \/ /\ stage = "Failed"
          /\ IsPrefix(Front(stages), StageOrder)
          /\ ~Reached("Ready")
    /\ Reached("Researching") => Len(plan) = num_slides /\ num_slides >= 1
    /\ Reached("Drafting") => Len(research_data) = Len(plan)
    /\ Reached("Illustrating") => deck_content # None
    /\ Reached("Assembling") =>
           /\ Len(final_slides_payload) = Len(deck_content.slides)
           /\ \A j \in 1..Len(visual_requests) : invocations[j] = 1
    /\ Reached("Ready") => Reached("Assembling") /\ toolResult # "none"
    /\ stage \in Terminal => pc = "done" /\ ~ENABLED Next

\* A run that reached Ready through all five stages.
C1_Witness ==
    /\ stages = StageOrder
    /\ Len(plan) = 2
    /\ Len(visual_requests) = 2

\* Failed is entered from every stage before Ready.
FailedFrom(s) ==
    /\ stage = "Failed"
    /\ outcome.stage = s
    /\ stages[Len(stages) - 1] = s

\* C2: the session opened for a run is closed exactly once on every way out
\* (return, exception, cancellation): it is never closed twice or without
\* having been opened, and whenever the run is Ready or Failed every opened
\* session has been closed.
C2_SessionClosedOnce ==
    /\ opens <= 1
    /\ closes <= opens
    /\ session = "closed" <=> closes = 1
    /\ session = "none" <=> opens = 0
    /\ stage \in Terminal => closes = opens /\ session # "open"
    /\ stage \in Terminal => transport # "open"
    /\ session = "open" => transport = "open"

\* A cancelled run whose session was open has closed it once.
C2_Witness ==
    /\ stage = "Failed"
    /\ outcome.error = "CancelledError"
    /\ opens = 1
    /\ closes = 1

\* The failures the error taxonomy calls fatal, and the stages they abort.
FatalErrors ==
    {"PlanningFailed", "ConnectionError", "ToolError",
     "DraftingConstraintViolation"}

FatalStages == {"Planning", "Drafting", "Assembling"}

\* C3: a fatal failure raised in Planning, Drafting or Assembling ends the run
\* in Failed without a later stage having run, and the orchestrator hands its
\* caller a returned failure result instead of letting the exception escape.
C3_FatalFailureReturned ==
    (/\ stage = "Failed"
     /\ outcome.stage \in FatalStages
     /\ outcome.error \in FatalErrors)
    => /\ stages[Len(stages) - 1] = outcome.stage
       /\ outcome.kind = "returned"

\* C4: the assembly tool is invoked exactly once in a run that reaches
\* Assembling, and the run reports a completed filename only if the tool
\* reported success: a run is never Ready after the tool answered with an
\* error message.
C4_ResultIsToolOutcome ==
    /\ toolCalls <= 1
    /\ stage = "Ready" =>
           /\ toolCalls = 1
           /\ toolResult = "Successfully saved presentation"

\* C5: at most one invocation is in flight on the session at any time, across
\* the handshake, tool discovery, research lookups, chart/image generation
\* and document assembly.
C5_OneInFlight == inflight \in {0, 1}

\* The assembly call is in flight after two research entries and two visual
\* requests have each been invoked and resolved.
C5_Witness ==
    /\ pc = "assemble_wait"
    /\ inflight = 1
    /\ Len(research_data) = 2
    /\ Len(visual_requests) = 2

\* A deck holds a chart request with data whose labels and values have equal
\* length (stated on the deck's fields).
HasGoodChart(deck) ==
    \E vr \in {deck.slides[i].visual_request : i \in 1..Len(deck.slides)}
              \cup {deck.visual_request} :
        /\ vr \in VisualRequest
        /\ vr.type = "chart"
        /\ vr.data_json # None
        /\ vr.data_json.labels = vr.data_json.values

ChartRequestsOf(deck) ==
    { i \in 1..Len(deck.slides) :
          /\ deck.slides[i].visual_request \in VisualRequest
          /\ deck.slides[i].visual_request.type = "chart" }

\* The run was abandoned while error e of stage s was leaving the `async
\* with` blocks: CancelledError travels out in its place.
ReplacedByCancel(p, s) ==
    p.kind = "raised" /\ p.error = "CancelledError" /\ p.stage = s

\* C6: a drafted deck without a well-formed chart request makes the run fail
\* in Drafting with DraftingConstraintViolation (unless the run is abandoned
\* while that error leaves it), and Illustrating and Assembling are never
\* entered; a drafted deck with a well-formed chart request is accepted and
\* the run enters Illustrating.
C6_ChartConstraintEnforced ==
    drafted # None =>
        IF HasGoodChart(drafted)
        THEN /\ deck_content = drafted
             /\ Reached("Illustrating")
             /\ pending.kind = "raised" =>
                    pending.error # "DraftingConstraintViolation"
        ELSE /\ deck_content = None
             /\ ~Reached("Illustrating")
             /\ ~Reached("Assembling")
             /\ pending.kind = "raised"
             /\ pending.stage = "Drafting"
             /\ \/ pending.error = "DraftingConstraintViolation"
                \/ /\ ReplacedByCancel(pending, "Drafting")
                   /\ pc \in {"stdio_exit", "finish", "done"}

\* A deck whose only requests are images was rejected.
C6_Witness ==
    /\ stage = "Failed"
    /\ outcome.error = "DraftingConstraintViolation"
    /\ Len(drafted.slides) = 2
    /\ ChartRequestsOf(drafted) = {}
    /\ drafted.slides[1].visual_request = MkVisualRequest("image", None)

\* A deck with exactly one chart request, of equal-length data, was accepted.
C6_WitnessAccepted ==
    /\ drafted # None
    /\ Cardinality(ChartRequestsOf(drafted)) = 1
    /\ HasGoodChart(drafted)
    /\ Reached("Assembling")

\* C7: a failed lookup for outline entry k neither aborts the run nor stops
\* the loop: entry k gets a summary with an empty ranked list, every entry
\* visited gets its own summary in outline order, and Drafting starts with
\* one summary per outline entry.
C7_ResearchIsolation ==
    /\ Len(research_data) = rIdx - 1
    /\ failedLookups \subseteq 1..Len(research_data)
    /\ \A k \in 1..Len(research_data) :
           /\ k <= Len(plan)
           /\ research_data[k].slide_title = plan[k].title
           /\ IF k \in failedLookups
              THEN research_data[k].sources = <<>>
              ELSE Len(research_data[k].sources) = plan[k].search_queries
    /\ Reached("Drafting") => Len(research_data) = Len(plan)
    /\ (pending.kind = "raised" /\ pending.stage = "Researching") =>
           pending.error = "CancelledError"

\* The lookup of entry 1 failed, entry 2 was still researched, Drafting began.
C7_Witness ==
    /\ Reached("Drafting")
    /\ Len(plan) = 2
    /\ failedLookups = {1}
    /\ research_data[1].sources = <<>>
    /\ research_data[2].sources # <<>>

\* C8: a failed tool invocation for one visual request is not retried and
\* yields no asset, the requests after it are still invoked, the assets are
\* those of the requests that did not fail, in request order, and a failed
\* invocation never makes the run fail in Illustrating.
C8_IllustrationIsolation ==
    /\ Len(invocations) = Len(visual_requests)
    /\ \A j \in 1..Len(invocations) : invocations[j] <= 1
    /\ failedReqs \subseteq 1..(vIdx - 1)
    /\ Len(assets) = (vIdx - 1) - Cardinality(failedReqs)
    /\ \A j \in 1..(vIdx - 1) :
           (j \notin failedReqs) <=>
               \E a \in 1..Len(assets) :
                   assets[a].slide_number = visual_requests[j].slide_number
    /\ Reached("Assembling") =>
           /\ vIdx = Len(visual_requests) + 1
           /\ \A j \in 1..Len(invocations) : invocations[j] = 1
    /\ (failedReqs # {} /\ pending.kind = "raised"
            /\ pending.stage = "Illustrating") =>
           pending.error = "CancelledError"

\* The first of two requests failed, the second produced the only asset, and
\* the run went on to Assembling.
C8_Witness ==
    /\ Reached("Assembling")
    /\ Len(visual_requests) = 2
    /\ failedReqs = {1}
    /\ Len(assets) = 1
    /\ assets[1].slide_number = visual_requests[2].slide_number

\* The slide numbers (0-based) that received a generated asset.
Illustrated == { assets[a].slide_number : a \in 1..Len(assets) }

\* C9: the reconciled payload has exactly one entry per outline entry, in
\* outline order, whichever slides received an asset.
C9_OnePayloadPerEntry ==
    Reached("Assembling") =>
        /\ Len(final_slides_payload) = Len(plan)
        /\ \A i \in 1..Len(final_slides_payload) :
               /\ i <= Len(plan)
               /\ final_slides_payload[i].title = <<"title", plan[i].slide_number>>
               /\ final_slides_payload[i].title = deck_content.slides[i].title

\* Two slides, of which only the second received an asset.
C9_Witness ==
    /\ Reached("Assembling")
    /\ Len(plan) = 2
    /\ Illustrated = {1}
    /\ Len(final_slides_payload) = 2

\* C10: payload entry i carries the title and points of slide i; its image is
\* the file path of the asset whose slide number is i (counted from 0) when
\* there is one, and unset otherwise; no asset is attached to another slide.
C10_ImageBySlideIndex ==
    Reached("Assembling") =>
        \A i \in 1..Len(final_slides_payload) :
            /\ i <= Len(deck_content.slides)
            /\ final_slides_payload[i].title = deck_content.slides[i].title
            /\ final_slides_payload[i].points = deck_content.slides[i].points
            /\ IF (i - 1) \in Illustrated
               THEN \E a \in 1..Len(assets) :
                        /\ assets[a].slide_number = i - 1
                        /\ final_slides_payload[i].image = assets[a].file_path
               ELSE final_slides_payload[i].image = None

\* Slide 0 has no asset and no image; slide 1 has both.
C10_Witness ==
    /\ Reached("Assembling")
    /\ Len(final_slides_payload) = 2
    /\ final_slides_payload[1].image = None
    /\ final_slides_payload[2].image = FilePath("image", 1)

\* C11: the planner makes at most 3 completion calls; every call but the one
\* that is accepted answered with an invalid result, so an outline accepted
\* after k invalid results cost k+1 calls and no call follows it; the run
\* fails with PlanningFailed exactly when the third result is invalid (unless
\* it is abandoned while that error leaves it).
PlanningFailedRaised ==
    \/ pending.kind = "raised" /\ pending.error = "PlanningFailed"
    \/ outcome.kind = "raised" /\ outcome.error = "PlanningFailed"

C11_PlannerRetries ==
    /\ attempts <= 3
    /\ invalidResults <= attempts
    /\ pc = "planning" => attempts = invalidResults /\ attempts < 3
    /\ Reached("Researching") => attempts = invalidResults + 1
    /\ PlanningFailedRaised =>
          attempts = 3 /\ invalidResults = 3 /\ ~Reached("Researching")
    /\ invalidResults >= 3 =>
          \/ PlanningFailedRaised
          \/ /\ ReplacedByCancel(pending, "Planning")
             /\ pc \in {"stdio_exit", "finish", "done"}

C11_Witness ==
    /\ Reached("Researching")
    /\ attempts = 3
    /\ invalidResults = 2

C11_WitnessFailed ==
    /\ PlanningFailedRaised
    /\ attempts = 3
    /\ stage = "Failed"

\* C12: an outline handed to the ResearchStage is non-empty, has exactly
\* num_slides entries, and each entry has a non-empty title and at least one
\* search query; results failing any of these are never stored as the plan.
WellFormedOutline(p, n) ==
    /\ Len(p) > 0
    /\ Len(p) = n
    /\ \A k \in 1..Len(p) : p[k].title # 0 /\ p[k].search_queries >= 1

C12_OutlineValidated ==
    /\ plan # <<>> => WellFormedOutline(plan, num_slides)
    /\ Reached("Researching") => WellFormedOutline(plan, num_slides)

C12_Witness ==
    /\ Reached("Researching")
    /\ invalidResults = 1
    /\ Len(plan) = 2
    /\ plan[2].search_queries = 2

\* C13: a request with a slide count below 1 is rejected before any stage
\* runs: the run never enters Planning, opens no session, makes no completion
\* call and no tool invocation.
C13_RejectedBeforeAnyStage ==
    (pc # "idle" /\ num_slides < 1) =>
        /\ ~Reached("Planning")
        /\ opens = 0
        /\ attempts = 0
        /\ invocations = <<>>
        /\ toolCalls = 0

\* What does hold for such a request: the planner raises InvalidRequest
\* without a completion call, and no tool is invoked.
C13_NoCallForInvalidRequest ==
    (pc # "idle" /\ num_slides < 1) =>
        /\ attempts = 0
        /\ invocations = <<>>
        /\ toolCalls = 0
        /\ ~Reached("Researching")

\* C14: every request handed to the IllustrationStage has type chart or image;
\* a chart request carries data whose labels and values have equal length, an
\* image request carries no data.
SatisfiesTypeDataInvariant(req) ==
    /\ req.type \in {"chart", "image"}
    /\ req.type = "chart" =>
          /\ req.data_json # None
          /\ req.data_json.labels = req.data_json.values
    /\ req.type = "image" => req.data_json = None

C14_RequestsWellTyped ==
    \A j \in 1..Len(visual_requests) :
        SatisfiesTypeDataInvariant(visual_requests[j])

\* C15: normalize_url is idempotent: normalising the result of normalize_url
\* again gives the same URL.
C15_NormalizeIdempotent ==
    vpc = "renormalized" => reclean_url = clean_url

\* What does hold: on CPython 3.13 a second application changes nothing, for
\* every argument.
C15_IdempotentOn313 ==
    (vpc = "renormalized" /\ interpreter = "3.13") => reclean_url = clean_url

\* The host of a netloc: what precedes the port.
HostOf(netloc) ==
    IF Find(netloc, ":", 1) > 0 THEN Prefix(netloc, Find(netloc, ":", 1) - 1)
    ELSE netloc

\* C16: the result of normalize_url has the scheme, host and path of its
\* argument, and an empty query string and fragment.
C16_NormalizePreserves ==
    vpc \in {"normalized", "renormalized"} =>
        /\ urlparse(clean_url).scheme = urlparse(url).scheme
        /\ HostOf(urlparse(clean_url).netloc) = HostOf(urlparse(url).netloc)
        /\ urlparse(clean_url).path = urlparse(url).path
        /\ urlparse(clean_url).query = <<>>
        /\ urlparse(clean_url).fragment = <<>>

\* What does hold: on CPython 3.13 scheme, host and path are those of the
\* argument, for every argument.
C16_PreservesOn313 ==
    (vpc \in {"normalized", "renormalized"} /\ interpreter = "3.13") =>
        /\ urlparse(clean_url).scheme = urlparse(url).scheme
        /\ HostOf(urlparse(clean_url).netloc) = HostOf(urlparse(url).netloc)
        /\ urlparse(clean_url).path = urlparse(url).path

\* What does hold for every argument: the result has no query and no
\* fragment, and a URL with a scheme and a host keeps scheme, host and path.
C16_QueryAndFragmentStripped ==
    vpc \in {"normalized", "renormalized"} =>
        /\ urlparse(clean_url).query = <<>>
        /\ urlparse(clean_url).fragment = <<>>
        /\ urlparse(url).netloc # <<>> =>
              /\ urlparse(clean_url).scheme = urlparse(url).scheme
              /\ urlparse(clean_url).netloc = urlparse(url).netloc
              /\ urlparse(clean_url).path = urlparse(url).path
              /\ vpc = "renormalized" => reclean_url = clean_url

\* C17: for a live source the score is confidence * 100, plus 10 for an
\* author, plus 5 for a date, plus 15 for a host ending in .edu or .gov,
\* clamped to [0, 100]; every score lies in [0, 100].  (Scores in thousandths.)
TrustedHost(u) == TrustedDomain(HostOf(urlparse(u).netloc))

ClaimedScore(u, confidence, resp) ==
    LET sum == confidence
                 + (IF Truthy(resp.author) THEN 10000 ELSE 0)
                 + (IF Truthy(resp.date) THEN 5000 ELSE 0)
                 + (IF TrustedHost(u) THEN 15000 ELSE 0)
    IN  IF sum <= 100000 THEN sum ELSE 100000

C17_ScoreFormula ==
    (vpc # "validate" /\ result.status = "live") =>
        /\ result.score = ClaimedScore(url, tavily_confidence, http_response)
        /\ result.score >= 0
        /\ result.score <= 100000

\* What does hold: every score lies in [0, 100].
C17_ScoreInRange ==
    vpc # "validate" => result.score >= 0 /\ result.score <= 100000

\* C18: for a live source, author, date and host being the same, a strictly
\* larger confidence never gives a smaller score, and gives a strictly larger
\* one when the larger score is below 100.
C18_ConfidenceMonotone ==
    (/\ vpc = "compared"
     /\ result.status = "live"
     /\ tavily_confidence < other_confidence) =>
        /\ other_result.score >= result.score
        /\ other_result.score < 100000 => other_result.score > result.score

\* What does hold: a larger confidence never gives a smaller score.
C18_NeverSmaller ==
    (vpc = "compared" /\ tavily_confidence < other_confidence) =>
        other_result.score >= result.score

\* C19: for a live source the tier follows from the final score alone: S from
\* 80, A from 60 to below 80, B below 60.
C19_TierFromScore ==
    (vpc # "validate" /\ result.status = "live") =>
        result.tier = IF result.score >= 80000 THEN "S"
                      ELSE IF result.score >= 60000 THEN "A" ELSE "B"

\* What does hold: the tier of a live source whose page was parsed follows
\* from its score.
C19_TierOfParsedPage ==
    (vpc # "validate" /\ result.status = "live" /\ http_response.parses) =>
        result.tier = IF result.score >= 80000 THEN "S"
                      ELSE IF result.score >= 60000 THEN "A" ELSE "B"

\* C20: a source whose URL is unreachable, or answers with a status outside
\* 200..299, has status dead and tier C whatever its confidence.
C20_DeadIsTierC ==
    (/\ vpc # "validate"
     /\ \/ http_response.kind = "exception"
        \/ http_response.status_code \notin 200..299) =>
        /\ result.status = "dead"
        /\ result.tier = "C"
        /\ vpc = "compared" =>
              other_result.status = "dead" /\ other_result.tier = "C"

C20_Witness ==
    /\ vpc = "validated"
    /\ tavily_confidence = 100000
    /\ http_response.kind = "answer"
    /\ http_response.status_code = 404
    /\ result.status = "dead"
    /\ result.tier = "C"

C20_WitnessUnreachable ==
    /\ vpc = "compared"
    /\ other_confidence = 100000
    /\ http_response.kind = "exception"
    /\ other_result.tier = "C"

\* C21: rank_sources returns every record of its argument once, sorted by
\* non-increasing score, and records of equal score keep the order they had
\* in the argument.
C21_SortedStable ==
    vpc = "ranked" =>
        /\ Len(ranking) = Len(raw_results)
        /\ \A i \in 1..Len(raw_results) :
              \E j \in 1..Len(ranking) : ranking[j].title = i
        /\ \A i \in 1..Len(ranking) : \A j \in 1..Len(ranking) :
              i < j =>
                  /\ ranking[i].validation.score >= ranking[j].validation.score
                  /\ ranking[i].validation.score = ranking[j].validation.score
                        => ranking[i].title < ranking[j].title

\* Three records, the best one last in the argument, the other two tied on a
\* score above 0.
C21_Witness ==
    /\ vpc = "ranked"
    /\ Len(ranking) = 3
    /\ ranking[1].title = 3
    /\ ranking[2].title = 1
    /\ ranking[3].title = 2
    /\ ranking[2].validation.score = ranking[3].validation.score
    /\ ranking[3].validation.score > 0

\* C22: in rank_sources a network or parse failure while validating one record
\* never aborts the ranking: the record is recorded as dead with tier C, and
\* every other record is still scored and returned.
FailedLookup(a) ==
    \/ a.kind = "exception"
    \/ a.kind = "answer" /\ Healthy(a.status_code) /\ ~a.parses

C22_FailureRecordedDead ==
    vpc = "ranked" =>
        /\ Len(ranking) = Len(raw_results)
        /\ \A j \in 1..Len(ranking) :
              LET a == answers[ranking[j].title]
                  v == ranking[j].validation
              IN  /\ FailedLookup(a) => v.status = "dead" /\ v.tier = "C"
                  /\ a.parses => v.status = "live" /\ v.tier = TierOf(v.score)

\* What does hold: no failure aborts the ranking, every record is returned
\* with a validation, a failed one with score 0 and tier C.
C22_RankingNeverAborted ==
    /\ vpc = "rank" =>
          \A i \in 1..Len(ranked_results) :
              ranked_results[i].title = raw_results[i].title
    /\ vpc = "ranked" =>
          /\ Len(ranking) = Len(raw_results)
          /\ \A j \in 1..Len(ranking) :
                LET a == answers[ranking[j].title]
                    v == ranking[j].validation
                IN  /\ FailedLookup(a) => v.score = 0 /\ v.tier = "C"
                    /\ a.parses => v.status = "live" /\ v.tier = TierOf(v.score)

\* C23: every status stream ends, and one that the client reads to its end
\* emits zero or more processing events (at most 40, one per 30-second check,
\* their elapsed values 0, 30, 60, ... strictly increasing) and then exactly
\* one final event, ready or timeout, and nothing after it; ready is emitted
\* only at a check where the artifact exists, timeout only after the artifact
\* was absent at every check up to 1200 s.  A stream whose client disconnects
\* ends after its processing events, with no final event.
Final(e) == e.status \in {"ready", "timeout"}

Ended == spc \in {"done", "cancelled"}

C23_StreamShape ==
    LET n == Len(events) IN
    /\ \A i \in 1..n :
          IF Final(events[i]) THEN i = n /\ spc = "done"
          ELSE /\ events[i] = ProcessingEvent(interval * (i - 1))
               /\ i <= max_wait_time \div interval
    /\ spc = "done" => n > 0 /\ Final(events[n])
    /\ spc = "cancelled" => \A i \in 1..n : ~Final(events[i])
    /\ n > 0 /\ events[n].status = "ready" =>
          /\ Len(checks) = n
          /\ checks[n]
          /\ \A i \in 1..(n - 1) : ~checks[i]
    /\ n > 0 /\ events[n].status = "timeout" =>
          /\ elapsed = max_wait_time
          /\ Len(checks) = max_wait_time \div interval
          /\ \A i \in 1..Len(checks) : ~checks[i]

C23_StreamTerminates ==
    /\ []C23_StreamShape
    /\ [][Ended => events' = events /\ spc' = spc]_vars
    /\ (spc # "off") ~> Ended

\* The statement without the restriction to streams read to their end: every
\* requested stream comes to emit a final event.
C23_EveryStreamFinal ==
    (spc # "off") ~> (spc = "done" /\ Final(events[Len(events)]))

\* The same statement about the streams that have ended: each has emitted a
\* final event.
C23_EndedStreamHasFinal ==
    Ended => Len(events) > 0 /\ Final(events[Len(events)])

\* A stream whose client went away after the second processing event: it has
\* ended and has no final event.
C23_Disconnected ==
    /\ spc = "cancelled"
    /\ Len(events) = 2
    /\ events[2] = ProcessingEvent(30)

\* A stream that timed out after 40 processing events.
C23_Witness ==
    /\ spc = "done"
    /\ Len(events) = 41
    /\ events[41] = TimeoutEvent
    /\ events[40] = ProcessingEvent(1170)

\* A stream that reported ready at its third check.
C23_WitnessReady ==
    /\ spc = "done"
    /\ Len(events) = 3
    /\ events[3] = ReadyEvent(pprt_id)
    /\ events[2] = ProcessingEvent(30)

\* C24: every tool invocation of a run (tool discovery included) is issued and
\* answered on an open session: none is issued before the handshake has
\* completed, none after the session is closed.
ToolWaits ==
    {"list_tools_wait", "research_wait", "illustrate_wait", "assemble_wait"}

ToolIssues == {"list_tools", "research", "illustrate", "assemble"}

C24_InvocationPending ==
    /\ pc \in ToolWaits => session = "open" /\ initialized
    /\ session # "open" => inflight = 0 /\ pc \notin ToolIssues
    /\ session = "closed" => pc \in {"stdio_exit", "finish", "done"}

C24_InvocationsOnOpenSession ==
    /\ []C24_InvocationPending
    /\ [][inflight' > inflight /\ pc # "initialize" =>
             /\ session = "open" /\ session' = "open"
             /\ initialized
             /\ closes = 0]_vars
    /\ [][inflight' > inflight /\ pc = "initialize" =>
             session = "open" /\ ~initialized]_vars

\* A run that discovered the tools, looked up a query, illustrated a request
\* and assembled the deck, its session now closed.
C24_Witness ==
    /\ pc = "done"
    /\ outcome.kind = "returned"
    /\ session = "closed"
    /\ initialized
    /\ research_data # <<>>
    /\ invocations # <<>>
    /\ toolCalls = 1

\* C25: the visual requests passed to the IllustrationStage are exactly the
\* VisualRequests attached to slides of the drafted deck, each tagged with the
\* position of its slide, in slide order; so every GeneratedAsset has the
\* slide index of a slide that carried a request, there are never more assets
\* than requests, and a slide without a request never gets an image path.
RequestsPassed ==
    IF deck_content = None \/ pc = "extract" THEN FALSE
    ELSE \A i \in 1..Len(deck_content.slides) :
             HasVisualRequestAttr(deck_content.slides[i])

C25_RequestsAreSlideRequests ==
    RequestsPassed =>
        LET slides == deck_content.slides
            n == Len(visual_requests)
        IN  /\ \A k \in 1..Len(slides) :
                  slides[k].visual_request # None <=>
                      \E j \in 1..n : visual_requests[j].slide_number = k - 1
            /\ \A j \in 1..n :
                  LET vr == slides[visual_requests[j].slide_number + 1]
                                .visual_request
                  IN  /\ visual_requests[j].type = vr.type
                      /\ visual_requests[j].data_json = vr.data_json
            /\ \A i \in 1..n : \A j \in 1..n :
                  i < j => visual_requests[i].slide_number
                               < visual_requests[j].slide_number
            /\ Len(assets) <= n
            /\ \A a \in 1..Len(assets) :
                  slides[assets[a].slide_number + 1].visual_request # None
            /\ \A k \in 1..Len(final_slides_payload) :
                  slides[k].visual_request = None =>
                      final_slides_payload[k].image = None

\* A finished run whose first slide carried no request and whose second
\* slide's request was illustrated.
C25_Witness ==
    /\ pc = "done"
    /\ outcome.kind = "returned"
    /\ RequestsPassed
    /\ Len(deck_content.slides) = 2
    /\ deck_content.slides[1].visual_request = None
    /\ Len(visual_requests) = 1
    /\ visual_requests[1].slide_number = 1
    /\ Len(assets) = 1
    /\ final_slides_payload[1].image = None
    /\ final_slides_payload[2].image # None

\* Both slides carried a request.
C25_WitnessTwoRequests ==
    /\ RequestsPassed
    /\ Len(visual_requests) = 2
    /\ Len(assets) = 1
    /\ assets[1].slide_number = 1

\* C26: in every result of validate_url status and tier agree: the tier is C
\* exactly when the status is dead, and a live result has a tier among S, A, B
\* computed from its score, also when an exception follows a successful
\* health check.
C26_StatusTierAgree ==
    vpc \in {"validated", "compared"} =>
        /\ result.tier = "C" <=> result.status = "dead"
        /\ result.status = "live" =>
              /\ result.tier \in {"S", "A", "B"}
              /\ result.tier = TierOf(result.score)

\* What does hold: status and tier agree unless parsing the page raised after
\* the health check.
C26_AgreeUnlessParseFailed ==
    (/\ vpc \in {"validated", "compared"}
     /\ http_response.kind = "exception" \/ ~FailedLookup(http_response)) =>
        /\ result.tier = "C" <=> result.status = "dead"
        /\ result.status = "live" => result.tier = TierOf(result.score)

\* C27: on success the filename run_ppt_workflow returns is the name of the
\* artifact the assembly tool wrote (the target filename passed to the
\* assembly call), so the returned identifier refers to an existing assembled
\* file.
C27_ReturnedNameIsArtifact ==
    stage = "Ready" =>
        /\ outcome.value = Pptx(pprt_id)
        /\ outcome.value \in files

\* What does hold: when the tool answered with success, the file of the
\* target filename exists.
C27_SavedUnderTargetName ==
    toolResult = "Successfully saved presentation" => Pptx(pprt_id) \in files

\* C28: for a request accepted by generate_ppt with pprt_id, if the background
\* run completes successfully before the stream's max wait, a status stream
\* for pprt_id eventually emits ready (not timeout) and a later download
\* returns the file rather than Pending: the artifact is written under exactly
\* the name that status and download look up.
RunSucceeded == stage = "Ready" /\ outcome.kind = "returned"

StreamWaiting == spc \in {"check", "sleep"} /\ elapsed < max_wait_time

StreamReady == spc = "done" /\ events[Len(events)].status = "ready"

C28_ReadyAndDownloadable ==
    /\ [][RunSucceeded => download' = download \/ download' = "file"]_vars
    /\ [][RunSucceeded /\ StreamWaiting /\ Len(checks') > Len(checks) =>
             events'[Len(events')].status = "ready"]_vars
    /\ (RunSucceeded /\ StreamWaiting) ~> StreamReady

\* What does hold: once the tool has answered with success, every check of
\* the stream reports ready and every download returns the file; the name
\* written is the name looked up.
C28_SameNameLookedUp ==
    /\ [][toolResult = "Successfully saved presentation" =>
             download' = download \/ download' = "file"]_vars
    /\ [][toolResult = "Successfully saved presentation"
             /\ Len(checks') > Len(checks) =>
                 events'[Len(events')].status = "ready"]_vars

\* The run succeeded and saved the artifact during the stream's last sleep,
\* before the 1200 s have passed: no check of the file follows.
C28_SavedDuringLastSleep ==
    /\ RunSucceeded
    /\ toolResult = "Successfully saved presentation"
    /\ Exists(pprt_id, files)
    /\ spc = "sleep"
    /\ elapsed + interval = max_wait_time

\* That stream then ended with timeout although the file was there.
C28_TimeoutDespiteArtifact ==
    /\ RunSucceeded
    /\ Len(checks) = max_wait_time \div interval
    /\ spc = "done"
    /\ events[Len(events)] = TimeoutEvent
    /\ download = "file"

\* C29: the assembly tool never raises: for any input, slides_content that is
\* not valid JSON or holds a wrong-shaped entry included, it returns either
\* the success message naming the saved path or an error message, and the
\* success message only once the artifact has been saved.
C29_ToolNeverRaises ==
    tool_return # None =>
        /\ tool_return.kind = "returned"
        /\ tool_return.message
               \in {"Successfully saved presentation", "Error creating PPT"}
        /\ tool_return.message = "Successfully saved presentation" =>
              /\ tool_return.path = Pptx(tool_args.filename)
              /\ tool_return.path \in files
        /\ tool_return.message = "Error creating PPT" => files = {}

\* A list whose second member is a string: the error message, nothing saved.
C29_Witness ==
    /\ tool_return # None
    /\ tool_disk = "writable"
    /\ tool_args.slides_content = JsonIterable(<<"slide", "text">>)
    /\ tool_return.message = "Error creating PPT"

\* slides_content that is not JSON.
C29_WitnessNotJson ==
    /\ tool_return # None
    /\ tool_args.slides_content = NotJson
    /\ tool_return.message = "Error creating PPT"

\* A well-shaped list saved.
C29_WitnessSaved ==
    /\ tool_return # None
    /\ tool_args.slides_content = JsonIterable(<<"slide", "bare">>)
    /\ tool_return.message = "Successfully saved presentation"
    /\ files = {Pptx(tool_args.filename)}

====
